---- MODULE Spec2Model ----
(***************************************************************************)
(* A model of parse_directory.py: the tree walker                          *)
(* (_write_folder_tree_recursive, driven by                                *)
(* _generate_and_save_single_structure_file) and the three content readers *)
(* (_read_text_file_content_with_encodings, _read_csv_content,              *)
(* _read_ipynb_content).                                                   *)
(*                                                                         *)
(* Strings are sequences of one-character strings, so that splitext,       *)
(* lower, startswith and the sort order are computed and not assumed.      *)
(* File bytes are numbers 0..255, decoded text is a sequence of code       *)
(* points.  An output line is a record of the fields the f-string that     *)
(* writes it interpolates; its field "at" (the path the walker was at when *)
(* it wrote the line) is a history annotation, not part of the text.       *)
(* The tree glyphs are written in ASCII: "|-- " and "+-- " are the branch  *)
(* and last connectors, "|   " the continuation segment, ": " the content  *)
(* glyph.                                                                  *)
(***************************************************************************)
EXTENDS Integers, Sequences, FiniteSets, TLC

VARIABLES pc, run, stack, fs, nodes, out, call

vars == <<pc, run, stack, fs, nodes, out, call>>

(***************************************************************************)
(* Bounds of the model.                                                    *)
(***************************************************************************)
\* most names one listing holds (besides the report file at the root)
MaxEntries == 2
\* deepest folder that still has entries (the root is at depth 0)
MaxDepth == 2
\* most entries listed in one run
MaxNodes == 5
\* most lines of a file handed to a reader
MaxFileLines == 3
\* lines the text layer decodes at once (one buffer of io.TextIOWrapper)
ChunkLines == 2
\* largest line cap handed to the text and CSV readers
MaxCap == 3
\* most cells of a notebook
MaxCells == 2
\* largest line budget handed to the notebook reader
MaxBudget == 5

(***************************************************************************)
(* Constants of the program.                                               *)
(***************************************************************************)
STRUCTURE_ONLY_FILENAME ==
  <<"f", "o", "l", "d", "e", "r", "_", "s", "t", "r", "u", "c", "t", "u", "r", "e", ".", "t", "x", "t">>

STRUCTURE_WITH_CONTENT_FILENAME ==
  <<"f", "o", "l", "d", "e", "r", "_", "s", "t", "r", "u", "c", "t", "u", "r", "e", "_", "w", "i", "t", "h", "_", "c", "o", "n", "t", "e", "n", "t", ".", "t", "x", "t">>

\* 10e10 in the source: more than TLC's 32-bit integers hold, so the model
\* keeps the largest number TLC has.  Both exceed every file of the model.
MAX_FILE_CONTENT_LINES == 2147483647

CSV_PREVIEW_LINES == 10

TEXT_FILE_EXTENSIONS ==
  {
    <<".", "t", "x", "t">>, <<".", "m", "d">>, <<".", "m", "a", "r", "k", "d", "o", "w", "n">>, <<".", "r", "s", "t">>, <<".", "t", "e", "x">>, <<".", "r", "t", "f">>, <<".", "t", "e", "x", "t">>, <<".", "l", "o", "g">>,
    <<".", "p", "y">>, <<".", "p", "y", "w">>, <<".", "j", "a", "v", "a">>, <<".", "c">>, <<".", "c", "p", "p">>, <<".", "h">>, <<".", "h", "p", "p">>, <<".", "c", "s">>, <<".", "j", "s">>, <<".", "m", "j", "s">>, <<".", "c", "j", "s">>, <<".", "t", "s">>, <<".", "t", "s", "x">>,
    <<".", "p", "h", "p">>, <<".", "p", "l">>, <<".", "p", "m">>, <<".", "r", "b">>, <<".", "s", "w", "i", "f", "t">>, <<".", "g", "o">>, <<".", "r", "s">>, <<".", "l", "u", "a">>, <<".", "s", "c", "a", "l", "a">>, <<".", "k", "t">>, <<".", "k", "t", "s">>, <<".", "d", "a", "r", "t">>,
    <<".", "s", "h">>, <<".", "b", "a", "s", "h">>, <<".", "z", "s", "h">>, <<".", "f", "i", "s", "h">>, <<".", "p", "s", "1">>, <<".", "b", "a", "t">>, <<".", "c", "m", "d">>,
    <<".", "g", "r", "o", "o", "v", "y">>, <<".", "g", "v", "y">>, <<".", "g", "y">>, <<".", "g", "s", "h">>,
    <<".", "r">>, <<".", "j", "l">>, <<".", "p", "a", "s">>, <<".", "f">>, <<".", "f", "9", "0">>, <<".", "f", "9", "5">>, <<".", "f", "o", "r">>,
    <<".", "a", "s", "m">>, <<".", "s">>,
    <<".", "v", "b">>, <<".", "v", "b", "s">>,
    <<".", "c", "l", "j">>, <<".", "c", "l", "j", "s">>, <<".", "c", "l", "j", "c">>, <<".", "e", "d", "n">>,
    <<".", "e", "r", "l">>, <<".", "h", "r", "l">>,
    <<".", "e", "x">>, <<".", "e", "x", "s">>,
    <<".", "h", "s">>, <<".", "l", "h", "s">>,
    <<".", "l", "i", "s", "p">>, <<".", "l", "s", "p">>, <<".", "s", "c", "m">>,
    <<".", "m", "l">>, <<".", "m", "l", "i">>,
    <<".", "p", "d", "e">>,
    <<".", "s", "o", "l">>,
    <<".", "t", "c", "l">>,
    <<".", "v", "a", "l", "a">>,
    <<".", "h", "t", "m", "l">>, <<".", "h", "t", "m">>, <<".", "x", "h", "t", "m", "l">>, <<".", "c", "s", "s">>, <<".", "s", "c", "s", "s">>, <<".", "l", "e", "s", "s">>, <<".", "s", "a", "s", "s">>, <<".", "j", "s", "o", "n">>, <<".", "x", "m", "l">>, <<".", "s", "v", "g">>,
    <<".", "y", "a", "m", "l">>, <<".", "y", "m", "l">>, <<".", "t", "o", "m", "l">>, <<".", "i", "n", "i">>, <<".", "c", "f", "g">>, <<".", "c", "o", "n", "f">>, <<".", "p", "r", "o", "p", "e", "r", "t", "i", "e", "s">>,
    <<".", "a", "s", "p">>, <<".", "a", "s", "p", "x">>, <<".", "j", "s", "p">>, <<".", "e", "j", "s">>, <<".", "h", "b", "s">>, <<".", "m", "u", "s", "t", "a", "c", "h", "e">>, <<".", "p", "u", "g">>, <<".", "j", "a", "d", "e">>,
    <<".", "h", "t", "a", "c", "c", "e", "s", "s">>, <<".", "h", "t", "p", "a", "s", "s", "w", "d">>,
    <<".", "c", "s", "v">>, <<".", "t", "s", "v">>, <<".", "j", "s", "o", "n", "l">>, <<".", "n", "d", "j", "s", "o", "n">>, <<".", "s", "q", "l">>, <<".", "g", "r", "a", "p", "h", "q", "l">>, <<".", "g", "q", "l">>,
    <<".", "d", "o", "c", "k", "e", "r", "f", "i", "l", "e">>, <<"d", "o", "c", "k", "e", "r", "f", "i", "l", "e">>,
    <<".", "g", "i", "t", "a", "t", "t", "r", "i", "b", "u", "t", "e", "s">>, <<".", "g", "i", "t", "i", "g", "n", "o", "r", "e">>, <<".", "g", "i", "t", "m", "o", "d", "u", "l", "e", "s">>, <<".", "e", "d", "i", "t", "o", "r", "c", "o", "n", "f", "i", "g">>,
    <<"m", "a", "k", "e", "f", "i", "l", "e">>, <<"m", "a", "k", "e", "f", "i", "l", "e", ".", "i", "n">>, <<"c", "m", "a", "k", "e", "l", "i", "s", "t", "s", ".", "t", "x", "t">>, <<"m", "e", "s", "o", "n", ".", "b", "u", "i", "l", "d">>,
    <<".", "p", "o", "m">>, <<".", "g", "r", "a", "d", "l", "e">>, <<".", "s", "b", "t">>, <<".", "p", "r", "o", "j", "e", "c", "t">>, <<".", "c", "l", "a", "s", "s", "p", "a", "t", "h">>, <<".", "b", "u", "i", "l", "d">>,
    <<".", "c", "s", "p", "r", "o", "j">>, <<".", "v", "b", "p", "r", "o", "j">>, <<".", "s", "l", "n">>, <<".", "s", "u", "o">>,
    <<".", "y", "a", "m", "l", "-", "t", "m", "l">>,
    <<".", "o", "r", "g">>, <<".", "w", "i", "k", "i">>, <<".", "t", "e", "x", "t", "i", "l", "e">>, <<".", "a", "d", "o", "c">>, <<".", "a", "s", "c", "i", "i", "d", "o", "c">>,
    <<".", "s", "r", "t">>, <<".", "s", "u", "b">>, <<".", "v", "t", "t">>,
    <<".", "p", "a", "t", "c", "h">>, <<".", "d", "i", "f", "f">>, <<".", "d", "e", "s", "k", "t", "o", "p">>, <<".", "s", "e", "r", "v", "i", "c", "e">>, <<".", "r", "u", "l", "e", "s">>,
    <<".", "r", "e", "g">>,
    <<".", "p", "l", "a", "n", "t", "u", "m", "l">>, <<".", "p", "u", "m", "l">>, <<".", "p", "u">>,
    <<".", "d", "o", "t">>, <<".", "g", "v">>,
    <<".", "p", "r", "o">>, <<".", "p", "r", "i">>, <<".", "s", "r", "c">>,
    <<>>
  }

ENCODINGS_TO_TRY_FOR_CONTENT == <<"utf-8", "cp1251", "cp1252", "latin-1", "utf-16">>

(***************************************************************************)
(* Python's string operations on the names.                                *)
(***************************************************************************)
\* the printable ASCII characters, in code point order from 32 ("grave" holds
\* the place of the grave accent, code point 96, which no name of the model has)
ASCII ==
  <<" ", "!", "\"", "#", "$", "%", "&", "'", "(", ")", "*", "+", ",", "-", ".", "/", "0", "1", "2", "3", "4", "5", "6", "7", "8", "9", ":", ";", "<", "=", ">", "?">> \o
  <<"@", "A", "B", "C", "D", "E", "F", "G", "H", "I", "J", "K", "L", "M", "N", "O", "P", "Q", "R", "S", "T", "U", "V", "W", "X", "Y", "Z", "[", "\\", "]", "^", "_">> \o
  <<"grave", "a", "b", "c", "d", "e", "f", "g", "h", "i", "j", "k", "l", "m", "n", "o", "p", "q", "r", "s", "t", "u", "v", "w", "x", "y", "z", "{", "|", "}", "~">>

\* ord(c)
Ord(c) == 31 + (CHOOSE i \in 1..Len(ASCII) : ASCII[i] = c)

\* c.lower()
LowerChar(c) == IF Ord(c) >= 65 /\ Ord(c) <= 90 THEN ASCII[Ord(c) + 32 - 31] ELSE c

\* s.lower()
Lower(s) == [i \in 1..Len(s) |-> LowerChar(s[i])]

\* s.startswith('.')
StartsWithDot(s) == Len(s) >= 1 /\ s[1] = "."

\* a < b for Python strings: the first differing code point decides, a proper
\* prefix is smaller
StrLess(a, b) ==
  \E k \in 1..(Len(b)) :
    /\ \A j \in 1..(k - 1) : j <= Len(a) /\ a[j] = b[j]
    /\ k - 1 <= Len(a)
    /\ (k > Len(a) \/ Ord(a[k]) < Ord(b[k]))

RECURSIVE SortNames(_)
\* sorted list of a set of names (list.sort() on what os.listdir returned)
SortNames(S) ==
  IF S = {} THEN <<>>
  ELSE LET m == CHOOSE x \in S : \A y \in S \ {x} : StrLess(x, y)
       IN  <<m>> \o SortNames(S \ {m})

\* s.rfind('.'), 0 when there is none (positions from 1)
RFindDot(s) ==
  IF \E i \in 1..Len(s) : s[i] = "."
  THEN CHOOSE i \in 1..Len(s) : s[i] = "." /\ \A j \in (i + 1)..Len(s) : s[j] # "."
  ELSE 0

\* os.path.splitext(name)[1] for a name without a separator: the text from the
\* last dot on, unless only dots precede that dot
SplitExt(name) ==
  LET d == RFindDot(name)
  IN  IF d > 0 /\ \E i \in 1..(d - 1) : name[i] # "."
      THEN SubSeq(name, d, Len(name))
      ELSE <<>>

(***************************************************************************)
(* Output lines.                                                           *)
(***************************************************************************)
\* the fields a written line can carry; a line sets the ones its text has
NoLine ==
  [kind |-> "", prefix |-> <<>>, pointer |-> "", name |-> <<>>, cls |-> "",
   enc |-> "", cap |-> -1, cell |-> 0, text |-> <<>>, at |-> <<>>]

\* f"{base_prefix}<fixed text>\n"
Mark(kind, base_prefix) == [NoLine EXCEPT !.kind = kind, !.prefix = base_prefix]

\* f"{base_prefix}{line_text.rstrip()}\n"
ContentLine(base_prefix, text) ==
  [NoLine EXCEPT !.kind = "content", !.prefix = base_prefix, !.text = text]

\* a header or an error line that names an encoding and a line cap
Header(kind, base_prefix, enc, cap) ==
  [NoLine EXCEPT !.kind = kind, !.prefix = base_prefix, !.enc = enc, !.cap = cap]

\* a variant that numbers the cells from 0, as enumerate does
CellHeaderZeroBased(kind, base_prefix, n) ==
  [NoLine EXCEPT !.kind = kind, !.prefix = base_prefix, !.cell = n - 1]

\* f"{base_prefix}[Markdown Cell {i+1}]\n" and f"{base_prefix}[Code Cell {i+1}]\n"
CellHeader(kind, base_prefix, n) ==
  [NoLine EXCEPT !.kind = kind, !.prefix = base_prefix, !.cell = n]

\* f"{prefix}{item_pointer}{entry_name} (<kind>)\n"
EntryLine(prefix, item_pointer, entry_name, cls) ==
  [NoLine EXCEPT !.kind = "entry", !.prefix = prefix, !.pointer = item_pointer,
                 !.name = entry_name, !.cls = cls]

\* the lines of a reader's block, stamped with the file they belong to
Stamp(lines, path) == [i \in 1..Len(lines) |-> [lines[i] EXCEPT !.at = path]]

(***************************************************************************)
(* Decoding.  The bytes of the model are "A", " ", and three bytes above   *)
(* 127: 255, 152 and 129.  None of them starts a UTF-8 sequence, 152 is    *)
(* unassigned in cp1251, 129 is unassigned in cp1252, latin-1 maps every   *)
(* byte.  A single byte is no UTF-16 code unit.                            *)
(***************************************************************************)
BYTES == {65, 32, 255, 152, 129}

\* the code point the codec gives the byte, -1 where it raises
\* UnicodeDecodeError under errors='strict'
DecodeByte(enc, b) ==
  CASE enc = "utf-8" -> IF b < 128 THEN b ELSE -1
    [] enc = "cp1251" -> IF b < 128 THEN b
                         ELSE IF b = 255 THEN 1103
                         ELSE IF b = 129 THEN 1027
                         ELSE -1
    [] enc = "cp1252" -> IF b < 128 THEN b
                         ELSE IF b = 255 THEN 255
                         ELSE IF b = 152 THEN 732
                         ELSE -1
    [] enc = "latin-1" -> b
    [] OTHER -> -1

LineDecodes(enc, bytes) == \A i \in 1..Len(bytes) : DecodeByte(enc, bytes[i]) # -1

DecodeLine(enc, bytes) == [i \in 1..Len(bytes) |-> DecodeByte(enc, bytes[i])]

\* the code points str.isspace() holds of
WHITESPACE ==
  {9, 10, 11, 12, 13, 28, 29, 30, 31, 32, 133, 160, 5760} \cup (8192..8202) \cup
  {8232, 8233, 8239, 8287, 12288}

RECURSIVE RStrip(_)
\* line.rstrip()
RStrip(s) ==
  IF s # <<>> /\ s[Len(s)] \in WHITESPACE THEN RStrip(SubSeq(s, 1, Len(s) - 1)) ELSE s

\* The text layer decodes a buffer at a time: fetching line i decodes the
\* whole chunk line i lies in, and raises if any byte of the chunk is invalid.
\* Chunks are counted in lines here.
ChunkDecodes(lines, enc, i) ==
  \A j \in 1..Len(lines) :
    ((j - 1) \div ChunkLines = (i - 1) \div ChunkLines) => LineDecodes(enc, lines[j])

(***************************************************************************)
(* _read_text_file_content_with_encodings.  A file is                      *)
(* [readable, lines]: whether open() succeeds, and the bytes of each line  *)
(* without its newline.  The result is [ret, out].                         *)
(***************************************************************************)
\* a variant that lets one line more through
TextCapReachedStrict(lines_written, max_lines) == lines_written > max_lines

\* the test that ends the loop with the truncation marker
TextCapReached(lines_written, max_lines) == lines_written >= max_lines

RECURSIVE TextLoop(_, _, _, _, _, _)
\* the for loop over f_content, about to fetch line i; [ok, out]: ok is FALSE
\* when UnicodeDecodeError left the with block
TextLoop(lines, enc, max_lines, base_prefix, i, acc) ==
  LET lines_written == i - 1
  IN
  IF i > Len(lines)
  THEN [ok |-> TRUE,
        out |-> acc \o (IF lines_written = 0
                        THEN <<Mark("text_empty", base_prefix)>> ELSE <<>>)
                    \o <<Mark("text_footer", base_prefix)>>]
  ELSE IF ~ChunkDecodes(lines, enc, i)
  THEN [ok |-> FALSE, out |-> acc]
  ELSE IF TextCapReached(lines_written, max_lines)
  THEN [ok |-> TRUE,
        out |-> acc \o <<Mark("truncated", base_prefix), Mark("text_footer", base_prefix)>>]
  ELSE TextLoop(lines, enc, max_lines, base_prefix, i + 1,
                Append(acc, ContentLine(base_prefix, RStrip(DecodeLine(enc, lines[i])))))

\* the header written right after open(), before anything is decoded
TextHeader(base_prefix, enc, max_lines) == <<Header("text_header", base_prefix, enc, max_lines)>>

RECURSIVE TextTry(_, _, _, _, _)
\* the for loop over the encodings, from the k-th on
TextTry(file, max_lines, base_prefix, k, acc) ==
  IF k > Len(ENCODINGS_TO_TRY_FOR_CONTENT)
  THEN [ret |-> FALSE, out |-> Append(acc, Mark("text_undecodable", base_prefix))]
  ELSE LET enc == ENCODINGS_TO_TRY_FOR_CONTENT[k]
       IN  IF ~file.readable
           THEN [ret |-> FALSE,
                 out |-> Append(acc, Header("text_ioerror", base_prefix, enc, -1))]
           ELSE LET r == TextLoop(file.lines, enc, max_lines, base_prefix, 1,
                                  acc \o TextHeader(base_prefix, enc, max_lines))
                IN  IF r.ok THEN [ret |-> TRUE, out |-> r.out]
                    ELSE TextTry(file, max_lines, base_prefix, k + 1, r.out)

ReadText(file, max_lines, base_prefix) == TextTry(file, max_lines, base_prefix, 1, <<>>)

(***************************************************************************)
(* _read_csv_content                                                       *)
(***************************************************************************)
\* the test that ends the preview
CsvCapReached(lines_written, max_preview_lines) == lines_written >= max_preview_lines

RECURSIVE CsvLoop(_, _, _, _, _, _)
\* the for loop over f_content, as in the text reader
CsvLoop(lines, enc, max_preview_lines, base_prefix, i, acc) ==
  LET lines_written == i - 1
  IN
  IF i > Len(lines)
  THEN [ok |-> TRUE,
        out |-> acc \o (IF lines_written = 0
                        THEN <<Mark("csv_empty", base_prefix)>> ELSE <<>>)
                    \o <<Mark("csv_footer", base_prefix)>>]
  ELSE IF ~ChunkDecodes(lines, enc, i)
  THEN [ok |-> FALSE, out |-> acc]
  ELSE IF CsvCapReached(lines_written, max_preview_lines)
  THEN [ok |-> TRUE,
        out |-> acc \o (IF lines_written > 0
                        THEN <<Mark("csv_truncated", base_prefix)>> ELSE <<>>)
                    \o <<Mark("csv_footer", base_prefix)>>]
  ELSE CsvLoop(lines, enc, max_preview_lines, base_prefix, i + 1,
               Append(acc, ContentLine(base_prefix, RStrip(DecodeLine(enc, lines[i])))))

CsvHeader(base_prefix, enc, max_preview_lines) ==
  <<Header("csv_header", base_prefix, enc, max_preview_lines)>>

RECURSIVE CsvTry(_, _, _, _, _)
CsvTry(file, max_preview_lines, base_prefix, k, acc) ==
  IF k > Len(ENCODINGS_TO_TRY_FOR_CONTENT)
  THEN [ret |-> FALSE,
        out |-> acc \o <<Mark("csv_header_plain", base_prefix),
                         Mark("csv_undecodable", base_prefix),
                         Mark("csv_footer", base_prefix)>>]
  ELSE LET enc == ENCODINGS_TO_TRY_FOR_CONTENT[k]
       IN  IF ~file.readable
           THEN [ret |-> FALSE,
                 out |-> acc \o <<Header("csv_header_attempt", base_prefix, enc, -1),
                                  Mark("csv_ioerror", base_prefix),
                                  Mark("csv_footer", base_prefix)>>]
           ELSE LET r == CsvLoop(file.lines, enc, max_preview_lines, base_prefix, 1,
                                 acc \o CsvHeader(base_prefix, enc, max_preview_lines))
                IN  IF r.ok THEN [ret |-> TRUE, out |-> r.out]
                    ELSE CsvTry(file, max_preview_lines, base_prefix, k + 1, r.out)

ReadCsv(file, max_preview_lines, base_prefix) ==
  CsvTry(file, max_preview_lines, base_prefix, 1, <<>>)

(***************************************************************************)
(* _read_ipynb_content.  A notebook file is [kind, cells]: kind tells how  *)
(* far open() and json.load() get ("ioerror", "undecodable", "badjson"),   *)
(* whether the document has a 'cells' list ("nocells", "cells"); a cell is *)
(* [cell_type, source], a source [type, val] is a list of lines, one       *)
(* string, or another JSON value (also: no 'source' key).  Text is a       *)
(* sequence of code points, 10 the newline.                                *)
(***************************************************************************)
\* the code points str.splitlines() ends a line at
LINE_BOUNDARIES == {10, 11, 12, 13, 28, 29, 30, 133, 8232, 8233}

RECURSIVE SplitLines(_, _)
\* s.splitlines(keepends=True), cur the line collected so far
SplitLines(s, cur) ==
  IF s = <<>> THEN (IF cur = <<>> THEN <<>> ELSE <<cur>>)
  ELSE IF Head(s) \in LINE_BOUNDARIES
       THEN <<Append(cur, Head(s))>> \o SplitLines(Tail(s), <<>>)
       ELSE SplitLines(Tail(s), Append(cur, Head(s)))

\* the list the cell loop iterates: source itself, or a string's lines
SourceLines(source) ==
  IF source.type = "list" THEN source.val ELSE SplitLines(source.val, <<>>)

RECURSIVE CellLoop(_, _, _, _, _, _)
\* the for loop over one cell's source, about to take line j; [total, out]
CellLoop(source, max_lines, base_prefix, j, lines_written_total, acc) ==
  IF j > Len(source) THEN [total |-> lines_written_total, out |-> acc]
  ELSE IF lines_written_total >= max_lines
  THEN [total |-> lines_written_total, out |-> Append(acc, Mark("truncated", base_prefix))]
  ELSE CellLoop(source, max_lines, base_prefix, j + 1, lines_written_total + 1,
                Append(acc, ContentLine(base_prefix, RStrip(source[j]))))

\* the branch of a markdown or code cell: its header, then its source
CellBlock(kind, source, max_lines, base_prefix, n, lines_written_total, acc) ==
  IF lines_written_total < max_lines
  THEN CellLoop(source, max_lines, base_prefix, 1, lines_written_total + 1,
                Append(acc, CellHeader(kind, base_prefix, n)))
  ELSE CellLoop(source, max_lines, base_prefix, 1, lines_written_total, acc)

\* whether the loop over the cells stops before cell n
BudgetExhausted(lines_written_total, max_lines) == lines_written_total >= max_lines

RECURSIVE CellsLoop(_, _, _, _, _, _, _)
\* the for loop over the cells, about to take the n-th (enumerate's i = n - 1);
\* [processed, total, out]
CellsLoop(cells, max_lines, base_prefix, n, lines_written_total, content_processed, acc) ==
  IF n > Len(cells) \/ BudgetExhausted(lines_written_total, max_lines)
  THEN [processed |-> content_processed, total |-> lines_written_total, out |-> acc]
  ELSE LET cell == cells[n]
       IN  IF cell.source.type \notin {"list", "str"}
           THEN CellsLoop(cells, max_lines, base_prefix, n + 1, lines_written_total,
                          content_processed, acc)
           ELSE IF cell.cell_type \in {"markdown", "code"}
           THEN LET r == CellBlock(IF cell.cell_type = "markdown" THEN "md_cell"
                                   ELSE "code_cell",
                                   SourceLines(cell.source), max_lines, base_prefix, n,
                                   lines_written_total, acc)
                IN  CellsLoop(cells, max_lines, base_prefix, n + 1, r.total,
                              content_processed \/ lines_written_total < max_lines, r.out)
           ELSE CellsLoop(cells, max_lines, base_prefix, n + 1, lines_written_total,
                          content_processed, acc)

ReadIpynb(nb, max_lines, base_prefix) ==
  LET head == <<Header("nb_header", base_prefix, "", max_lines)>>
      foot == <<Mark("nb_footer", base_prefix)>>
  IN
  CASE nb.kind = "ioerror" ->
         [ret |-> FALSE, out |-> head \o <<Mark("nb_ioerror", base_prefix)>> \o foot]
    [] nb.kind = "undecodable" ->
         [ret |-> FALSE, out |-> head \o <<Mark("nb_unexpected", base_prefix)>> \o foot]
    [] nb.kind = "badjson" ->
         [ret |-> FALSE, out |-> head \o <<Mark("nb_json_error", base_prefix)>> \o foot]
    [] nb.kind = "nocells" ->
         \* the early return writes the footer, and the finally clause again
         [ret |-> FALSE, out |-> head \o <<Mark("nb_invalid", base_prefix)>> \o foot \o foot]
    [] OTHER ->
         LET r == CellsLoop(nb.cells, max_lines, base_prefix, 1, 0, FALSE, head)
         IN  [ret |-> r.processed,
              out |-> r.out \o (IF ~r.processed /\ r.total = 0
                                THEN <<Mark("nb_empty", base_prefix)>> ELSE <<>>)
                            \o foot]

(***************************************************************************)
(* The directory tree.  The program learns it one os.listdir, os.path.isdir *)
(* and open at a time, each folder and entry once, so the model draws what *)
(* each call answers when the call is made and records it in fs.  A path   *)
(* is the sequence of names below the root folder.                         *)
(***************************************************************************)
\* the directory entries listings are drawn from: a name and what
\* os.path.isdir / os.path.isfile answer for it
ENTRIES ==
  { [name |-> <<"s", "u", "b">>, kind |-> "folder"],
    [name |-> <<"a", ".", "t", "x", "t">>, kind |-> "file"],
    [name |-> <<"D", ".", "C", "S", "V">>, kind |-> "file"],
    [name |-> <<"n", ".", "i", "p", "y", "n", "b">>, kind |-> "file"],
    [name |-> <<"x", ".", "b", "i", "n">>, kind |-> "file"],
    [name |-> <<"m", "k">>, kind |-> "file"],
    [name |-> <<".", "e", "n", "v">>, kind |-> "file"],
    [name |-> <<"d", "e", "v">>, kind |-> "other"],
    [name |-> STRUCTURE_ONLY_FILENAME, kind |-> "file"],
    [name |-> STRUCTURE_WITH_CONTENT_FILENAME, kind |-> "file"] }

\* the files open() finds behind a text or CSV entry of the tree
SampleFiles ==
  { [readable |-> TRUE, lines |-> << <<65, 32>> >>],
    [readable |-> TRUE, lines |-> << <<65>>, <<255>>, <<>> >>] }

\* the files open() finds behind a notebook entry of the tree
SampleNotebooks ==
  { [kind |-> "nocells", cells |-> <<>>],
    [kind |-> "cells",
     cells |-> << [cell_type |-> "code",
                   source |-> [type |-> "str", val |-> <<97, 10, 98>>]] >>] }

NamesOf(S) == {e.name : e \in S}

KindOf(S, name) == (CHOOSE e \in S : e.name = name).kind

\* the two calls __main__ makes
RUNS ==
  { [output_filename |-> STRUCTURE_ONLY_FILENAME,
     include_file_content |-> FALSE,
     files_to_skip_content_processing |-> {}],
    [output_filename |-> STRUCTURE_WITH_CONTENT_FILENAME,
     include_file_content |-> TRUE,
     files_to_skip_content_processing |-> {STRUCTURE_ONLY_FILENAME}] }

\* what os.listdir can answer for the folder at path: at the root the report
\* file, which open(output_filepath, 'w') has just created, is among the names
Listings(path, output_filename) ==
  LET self == [name |-> output_filename, kind |-> "file"]
      small == {S \in SUBSET (ENTRIES \ {self}) : Cardinality(S) <= MaxEntries}
  IN  IF path = <<>> THEN {S \cup {self} : S \in small}
      ELSE IF Len(path) <= MaxDepth THEN {S \in SUBSET ENTRIES : Cardinality(S) <= MaxEntries}
      ELSE {{}}

(***************************************************************************)
(* _write_folder_tree_recursive                                            *)
(***************************************************************************)
\* a variant that takes every folder for the root
IsRootFolderAny(path) == TRUE

\* current_folder_abs_path_for_check == root_folder_abs_path
IsRootFolder(path) == path = <<>>

\* the test of the first continue in the filter loop
IsSelfOutput(entry_name, path, output_filename) ==
  entry_name = output_filename /\ IsRootFolder(path)

\* the test of the second continue in the filter loop
IsHidden(entry_name) == StartsWithDot(entry_name)

\* a variant that sorts in descending order
ListedEntriesReversed(S) ==
  LET s == SortNames(NamesOf(S)) IN [i \in 1..Len(s) |-> s[Len(s) + 1 - i]]

\* listed_entries after sort()
ListedEntries(S) == SortNames(NamesOf(S))

\* entries_to_process
EntriesToProcess(S, path, output_filename) ==
  LET Keep(entry_name) ==
        ~IsSelfOutput(entry_name, path, output_filename) /\ ~IsHidden(entry_name)
  IN  SelectSeq(ListedEntries(S), Keep)

\* pointers[i]
Pointer(entries, i) == IF i < Len(entries) THEN "|-- " ELSE "+-- "

\* a variant that continues the vertical line under a last sibling too
ExtensionAlwaysBar(item_pointer) == "|   "

\* extension_for_next_level, content_base_prefix_ext
Extension(item_pointer) == IF item_pointer = "|-- " THEN "|   " ELSE "    "

\* prefix + extension_for_next_level
ChildPrefix(prefix, item_pointer) == Append(prefix, Extension(item_pointer))

\* full_content_prefix
ContentPrefix(prefix, item_pointer) == Append(ChildPrefix(prefix, item_pointer), ": ")

\* a variant that tests the text extensions, .csv among them, first
DispatchTextFirst(entry_name) ==
  LET file_ext_lower == Lower(SplitExt(entry_name))
  IN  IF file_ext_lower = <<".", "i", "p", "y", "n", "b">> THEN "ipynb"
      ELSE IF file_ext_lower \in TEXT_FILE_EXTENSIONS THEN "text"
      ELSE IF file_ext_lower = <<".", "c", "s", "v">> THEN "csv"
      ELSE "none"

\* which branch of the if / elif chain on file_ext_lower is taken
Dispatch(entry_name) ==
  LET file_ext_lower == Lower(SplitExt(entry_name))
  IN  IF file_ext_lower = <<".", "i", "p", "y", "n", "b">> THEN "ipynb"
      ELSE IF file_ext_lower = <<".", "c", "s", "v">> THEN "csv"
      ELSE IF file_ext_lower \in TEXT_FILE_EXTENSIONS THEN "text"
      ELSE "none"

\* the lines written under a file entry when include_file_content is set
FileContent(entry_name, skip, full_content_prefix, file, nb) ==
  IF entry_name \in skip
  THEN <<[Mark("skip_notice", full_content_prefix) EXCEPT !.name = entry_name]>>
  ELSE CASE Dispatch(entry_name) = "ipynb" ->
              ReadIpynb(nb, MAX_FILE_CONTENT_LINES, full_content_prefix).out
         [] Dispatch(entry_name) = "csv" ->
              ReadCsv(file, CSV_PREVIEW_LINES, full_content_prefix).out
         [] Dispatch(entry_name) = "text" ->
              ReadText(file, MAX_FILE_CONTENT_LINES, full_content_prefix).out
         [] OTHER ->
              <<[Mark("non_text", full_content_prefix) EXCEPT !.name = SplitExt(entry_name)]>>

NoCall == [fn |-> "none"]

Top == stack[Len(stack)]

Frame(path, prefix) ==
  [path |-> path, prefix |-> prefix, listed |-> FALSE, entries |-> <<>>, i |-> 1]

\* what the program has learnt about the folder at path
FsAt(path) == CHOOSE r \in fs : r.path = path

\* the frame popped; the outermost call returning ends the with block
Pop ==
  /\ stack' = SubSeq(stack, 1, Len(stack) - 1)
  /\ pc' = IF Len(stack) = 1 THEN "done" ELSE pc

(***************************************************************************)
(* _generate_and_save_single_structure_file, on a root path that exists    *)
(* and is a directory.                                                     *)
(***************************************************************************)
Generate ==
  /\ pc = "start"
  /\ pc' = "walking"
  /\ out' = <<Mark("root", <<>>)>>
  /\ stack' = <<Frame(<<>>, <<"  ">>)>>
  /\ UNCHANGED <<run, fs, nodes, call>>

\* open(output_filepath, 'w') raises IOError: nothing is written
OpenFails ==
  /\ pc = "start"
  /\ pc' = "failed"
  /\ UNCHANGED <<run, stack, fs, nodes, out, call>>

\* os.listdir answers; the names are sorted and filtered
ListFolder ==
  /\ pc = "walking"
  /\ ~Top.listed
  /\ \E S \in Listings(Top.path, run.output_filename) :
       /\ nodes + Cardinality(S) <= MaxNodes
       /\ nodes' = nodes + Cardinality(S)
       /\ fs' = fs \cup {[path |-> Top.path, status |-> "listed", entries |-> S]}
       /\ stack' = [stack EXCEPT ![Len(stack)] =
                      [@ EXCEPT !.listed = TRUE,
                                !.entries = EntriesToProcess(S, Top.path, run.output_filename)]]
  /\ UNCHANGED <<pc, run, out, call>>

\* a variant in which PermissionError is not caught where it is raised: it
\* unwinds every call and the run ends
ListDeniedAborts ==
  /\ pc = "walking"
  /\ ~Top.listed
  /\ out' = Append(out, [Mark("access_denied", Top.prefix) EXCEPT
                           !.pointer = "|-- ", !.at = Top.path])
  /\ fs' = fs \cup {[path |-> Top.path, status |-> "denied", entries |-> {}]}
  /\ stack' = <<>>
  /\ pc' = "done"
  /\ UNCHANGED <<run, nodes, call>>

\* os.listdir raises PermissionError
ListDenied ==
  /\ pc = "walking"
  /\ ~Top.listed
  /\ out' = Append(out, [Mark("access_denied", Top.prefix) EXCEPT
                           !.pointer = "|-- ", !.at = Top.path])
  /\ fs' = fs \cup {[path |-> Top.path, status |-> "denied", entries |-> {}]}
  /\ Pop
  /\ UNCHANGED <<run, nodes, call>>

\* os.listdir raises FileNotFoundError
ListNotFound ==
  /\ pc = "walking"
  /\ ~Top.listed
  /\ out' = Append(out, [Mark("path_not_found", Top.prefix) EXCEPT
                           !.pointer = "|-- ", !.at = Top.path])
  /\ fs' = fs \cup {[path |-> Top.path, status |-> "notfound", entries |-> {}]}
  /\ Pop
  /\ UNCHANGED <<run, nodes, call>>

\* the loop over entries_to_process is at an entry of the given kind
AtEntry(kind) ==
  /\ pc = "walking"
  /\ Top.listed
  /\ Top.i <= Len(Top.entries)
  /\ KindOf(FsAt(Top.path).entries, Top.entries[Top.i]) = kind

\* os.path.isdir(current_path): the entry line, then the recursive call
ProcessFolder ==
  /\ AtEntry("folder")
  /\ LET entry_name == Top.entries[Top.i]
         current_path == Append(Top.path, entry_name)
         item_pointer == Pointer(Top.entries, Top.i)
     IN  /\ out' = Append(out, [EntryLine(Top.prefix, item_pointer, entry_name, "folder")
                                  EXCEPT !.at = current_path])
         /\ stack' = Append([stack EXCEPT ![Len(stack)].i = @ + 1],
                            Frame(current_path, ChildPrefix(Top.prefix, item_pointer)))
  /\ UNCHANGED <<pc, run, fs, nodes, call>>

\* os.path.isfile(current_path): the entry line, then the content if asked for
ProcessFile ==
  /\ AtEntry("file")
  /\ \E file \in SampleFiles, nb \in SampleNotebooks :
       LET entry_name == Top.entries[Top.i]
           current_path == Append(Top.path, entry_name)
           item_pointer == Pointer(Top.entries, Top.i)
       IN  out' = Append(out, [EntryLine(Top.prefix, item_pointer, entry_name, "file")
                                 EXCEPT !.at = current_path])
                  \o (IF run.include_file_content
                      THEN Stamp(FileContent(entry_name, run.files_to_skip_content_processing,
                                             ContentPrefix(Top.prefix, item_pointer),
                                             file, nb),
                                 current_path)
                      ELSE <<>>)
  /\ stack' = [stack EXCEPT ![Len(stack)].i = @ + 1]
  /\ UNCHANGED <<pc, run, fs, nodes, call>>

\* neither a directory nor a regular file
ProcessOther ==
  /\ AtEntry("other")
  /\ LET entry_name == Top.entries[Top.i]
     IN  out' = Append(out, [EntryLine(Top.prefix, Pointer(Top.entries, Top.i),
                                       entry_name, "other")
                               EXCEPT !.at = Append(Top.path, entry_name)])
  /\ stack' = [stack EXCEPT ![Len(stack)].i = @ + 1]
  /\ UNCHANGED <<pc, run, fs, nodes, call>>

\* the loop over entries_to_process is over: the call returns
Return ==
  /\ pc = "walking"
  /\ Top.listed
  /\ Top.i > Len(Top.entries)
  /\ Pop
  /\ UNCHANGED <<run, fs, nodes, out, call>>

Init ==
  /\ pc = "start"
  /\ run \in RUNS
  /\ stack = <<>>
  /\ fs = {}
  /\ nodes = 0
  /\ out = <<>>
  /\ call = NoCall

Next ==
  \/ Generate
  \/ OpenFails
  \/ ListFolder
  \/ ListDenied
  \/ ListNotFound
  \/ ProcessFolder
  \/ ProcessFile
  \/ ProcessOther
  \/ Return

Spec == Init /\ [][Next]_vars

(***************************************************************************)
(* The readers on their own: one call of a reader on a drawn file with a   *)
(* drawn line cap.                                                         *)
(***************************************************************************)
\* the lines files are made of
LineValues == {<<>>, <<65>>, <<65, 32>>, <<255>>, <<152>>, <<129>>, <<65, 255>>}

SeqsUpTo(S, n) == UNION {[1..k -> S] : k \in 0..n}

Files ==
  {[readable |-> FALSE, lines |-> <<>>]} \cup
  {[readable |-> TRUE, lines |-> l] : l \in SeqsUpTo(LineValues, MaxFileLines)}

Sources ==
  { [type |-> "list", val |-> <<>>],
    [type |-> "list", val |-> << <<97, 10>> >>],
    [type |-> "list", val |-> << <<97, 32, 10>>, <<98>> >>],
    [type |-> "str", val |-> <<97, 10, 98>>],
    [type |-> "none", val |-> <<>>] }

Cells == [cell_type : {"markdown", "code", "raw"}, source : Sources]

Notebooks ==
  {[kind |-> k, cells |-> <<>>] : k \in {"ioerror", "undecodable", "badjson", "nocells"}} \cup
  {[kind |-> "cells", cells |-> c] : c \in SeqsUpTo(Cells, MaxCells)}

\* the base_prefix of the calls
BasePrefix == <<"  ", "    ", ": ">>

NoRun == [output_filename |-> <<>>, include_file_content |-> FALSE,
          files_to_skip_content_processing |-> {}]

CallInit(fns, files, caps) ==
  /\ pc = "call"
  /\ call \in [fn : fns, file : files, max_lines : caps, ret : {FALSE}]
  /\ run = NoRun
  /\ stack = <<>>
  /\ fs = {}
  /\ nodes = 0
  /\ out = <<>>

Returns(r) ==
  /\ pc' = "returned"
  /\ out' = r.out
  /\ call' = [call EXCEPT !.ret = r.ret]
  /\ UNCHANGED <<run, stack, fs, nodes>>

CallReadText ==
  /\ pc = "call"
  /\ call.fn = "text"
  /\ Returns(ReadText(call.file, call.max_lines, BasePrefix))

CallReadCsv ==
  /\ pc = "call"
  /\ call.fn = "csv"
  /\ Returns(ReadCsv(call.file, call.max_lines, BasePrefix))

CallReadIpynb ==
  /\ pc = "call"
  /\ call.fn = "ipynb"
  /\ Returns(ReadIpynb(call.file, call.max_lines, BasePrefix))

ReadInit == CallInit({"text", "csv"}, Files, 0..MaxCap)

ReadNext ==
  \/ CallReadText
  \/ CallReadCsv

ReadSpec == ReadInit /\ [][ReadNext]_vars

NotebookInit == CallInit({"ipynb"}, Notebooks, 0..MaxBudget)

NotebookNext == CallReadIpynb

NotebookSpec == NotebookInit /\ [][NotebookNext]_vars

(***************************************************************************)
(* Properties of the readers, checked under ReadSpec and NotebookSpec.     *)
(***************************************************************************)
Min(a, b) == IF a <= b THEN a ELSE b

Select(lines, kinds) == LET Is(l) == l.kind \in kinds IN SelectSeq(lines, Is)

IsPrefix(a, b) == Len(a) <= Len(b) /\ a = SubSeq(b, 1, Len(a))

\* every line of the file decodes under enc
DecodesUnder(file, enc) == \A i \in 1..Len(file.lines) : LineDecodes(enc, file.lines[i])

\* the first count lines of the file as decoded under enc and right-trimmed
DecodedLines(file, enc, count) ==
  [i \in 1..count |-> ContentLine(BasePrefix, RStrip(DecodeLine(enc, file.lines[i])))]

HeaderKind == IF call.fn = "text" THEN "text_header" ELSE "csv_header"

MarkerKind == IF call.fn = "text" THEN "truncated" ELSE "csv_truncated"

EmptyKind == IF call.fn = "text" THEN "text_empty" ELSE "csv_empty"

FooterKind == IF call.fn = "text" THEN "text_footer" ELSE "csv_footer"

\* header, min(n, c) lines, the marker iff n > c, footer
TruncatedBlock(file, enc, c) ==
  LET n == Len(file.lines)
  IN  <<Header(HeaderKind, BasePrefix, enc, c)>>
      \o DecodedLines(file, enc, Min(n, c))
      \o (IF n > c THEN <<Mark(MarkerKind, BasePrefix)>> ELSE <<>>)
      \o <<Mark(FooterKind, BasePrefix)>>

\* a text or CSV read of a readable file that is valid UTF-8, with a cap >= 1,
\* has returned
ReadUtf8Returned ==
  /\ pc = "returned"
  /\ call.fn \in {"text", "csv"}
  /\ call.file.readable
  /\ DecodesUnder(call.file, "utf-8")
  /\ call.max_lines >= 1

\* C5 as stated: for a file of n lines that decodes under the first encoding,
\* read with a cap c >= 1, the block is exactly the header, min(n, c) content
\* lines in file order, the truncation marker iff n > c, and the footer.
C5_Original == ReadUtf8Returned => out = TruncatedBlock(call.file, "utf-8", call.max_lines)

\* C5 amended: the same for n >= 1; for the empty file (n = 0) the block is the
\* header, the "file is empty" notice and the footer.
C5_Truncation ==
  ReadUtf8Returned =>
    out = IF Len(call.file.lines) = 0
          THEN <<Header(HeaderKind, BasePrefix, "utf-8", call.max_lines),
                 Mark(EmptyKind, BasePrefix), Mark(FooterKind, BasePrefix)>>
          ELSE TruncatedBlock(call.file, "utf-8", call.max_lines)

\* a CSV preview of a file longer than the cap has been written
C5_Witness ==
  /\ ReadUtf8Returned
  /\ call.fn = "csv"
  /\ Len(call.file.lines) > call.max_lines
  /\ Len(Select(out, {"csv_truncated"})) = 1

\* the position in the list of the first encoding the whole file decodes under
\* (latin-1 maps every byte, so there is one)
FirstDecoding(file) ==
  CHOOSE k \in 1..Len(ENCODINGS_TO_TRY_FOR_CONTENT) :
    /\ DecodesUnder(file, ENCODINGS_TO_TRY_FOR_CONTENT[k])
    /\ \A j \in 1..(k - 1) : ~DecodesUnder(file, ENCODINGS_TO_TRY_FOR_CONTENT[j])

\* C7 (for a cap >= 1): when a file fails to decode under the earlier encodings
\* and decodes under a later encoding e, the block holds exactly one header,
\* which names e, the file's lines as decoded under e up to the cap, and exactly
\* one footer: no header and no content line of an abandoned attempt.
C7_OneEncoding ==
  (/\ pc = "returned"
   /\ call.fn \in {"text", "csv"}
   /\ call.file.readable
   /\ call.max_lines >= 1
   /\ FirstDecoding(call.file) > 1)
  => LET e == ENCODINGS_TO_TRY_FOR_CONTENT[FirstDecoding(call.file)]
     IN  /\ Select(out, {"text_header", "csv_header"}) =
              <<Header(HeaderKind, BasePrefix, e, call.max_lines)>>
         /\ Select(out, {"content"}) =
              DecodedLines(call.file, e, Min(Len(call.file.lines), call.max_lines))
         /\ Len(Select(out, {FooterKind})) = 1

\* the loop over the encodings never runs out: the line written after it is
\* never written
UndecodableNeverWritten ==
  Select(out, {"text_undecodable", "csv_undecodable"}) = <<>>

\* a markdown or code cell
IsMarkdownOrCode(cell) == cell.cell_type \in {"markdown", "code"}

\* a markdown or code cell whose source is a list or a string
HasSource(cell) == IsMarkdownOrCode(cell) /\ cell.source.type \in {"list", "str"}

RECURSIVE AllCellLines(_, _, _)
\* the header and the source lines, in document order, of every markdown or
\* code cell from the n-th on (sourced: of those with a list or string source)
AllCellLines(cells, n, sourced) ==
  IF n > Len(cells) THEN <<>>
  ELSE (IF (IF sourced THEN HasSource(cells[n]) ELSE IsMarkdownOrCode(cells[n]))
        THEN LET src == SourceLines(cells[n].source)
             IN  <<[NoLine EXCEPT !.kind = IF cells[n].cell_type = "markdown"
                                           THEN "md_cell" ELSE "code_cell",
                                  !.prefix = BasePrefix, !.cell = n]>>
                 \o [j \in 1..Len(src) |-> ContentLine(BasePrefix, RStrip(src[j]))]
        ELSE <<>>)
       \o AllCellLines(cells, n + 1, sourced)

\* the cell headers and source lines written
Emitted == Select(out, {"md_cell", "code_cell", "content"})

NotebookReturned == pc = "returned" /\ call.fn = "ipynb" /\ call.file.kind = "cells"

\* the budget is kept, the lines written are the first of all, and they are
\* all of them, with no truncation marker, when all fit the budget
SharedBudget(all) ==
  /\ Len(Emitted) <= call.max_lines
  /\ IsPrefix(Emitted, all)
  /\ Len(all) <= call.max_lines => (Emitted = all /\ Select(out, {"truncated"}) = <<>>)

C9_TruncationAnnounced ==
  (/\ NotebookReturned
   /\ call.max_lines >= 1
   /\ Len(Emitted) < Len(AllCellLines(call.file.cells, 1, TRUE)))
  => /\ Len(Select(out, {"truncated"})) = 1
     /\ out[Len(out) - 1].kind = "truncated"

(***************************************************************************)
(* Properties of the walker, checked under Spec.                           *)
(***************************************************************************)
\* the path without its last name
Parent(p) == SubSeq(p, 1, Len(p) - 1)

\* the names of a listing that are not dropped: the report's own name at the
\* root and, with hidden set, the names that start with a dot
Kept(r, hidden) ==
  {n \in NamesOf(r.entries) :
     /\ ~(n = run.output_filename /\ r.path = <<>>)
     /\ hidden => n[1] # "."}

\* the entry lines written for the entries of the folder at path D
LinesOfFolder(D) ==
  LET In(l) == l.kind = "entry" /\ Len(l.at) = Len(D) + 1 /\ Parent(l.at) = D
  IN  SelectSeq(out, In)

\* the entry lines of the listed folder r are one per name of names, in
\* ascending order, each with the entry's classification
ListedExactly(r, names) ==
  LET ls == LinesOfFolder(r.path)
  IN  /\ Len(ls) = Cardinality(names)
      /\ {ls[i].name : i \in 1..Len(ls)} = names
      /\ \A i \in 1..(Len(ls) - 1) : StrLess(ls[i].name, ls[i + 1].name)
      /\ \A i \in 1..Len(ls) :
           /\ ls[i].at = Append(r.path, ls[i].name)
           /\ ls[i].cls = KindOf(r.entries, ls[i].name)

\* C1 as stated: the entry lines of every folder D are one line per name of
\* D's listing, in ascending name order, each with the entry's classification;
\* the only name without a line is the report's own name, in the root folder.
C1_Original ==
  pc = "done" => \A r \in fs : r.status = "listed" => ListedExactly(r, Kept(r, FALSE))

\* C1 amended: the names without a line are the report's own name in the root
\* folder and, in every folder, the names that start with a dot.
C1_Listing ==
  pc = "done" => \A r \in fs : r.status = "listed" => ListedExactly(r, Kept(r, TRUE))

\* a finished run that listed a folder with a hidden name, and a subfolder
\* that holds the report's name and got two lines
C1_Witness ==
  /\ pc = "done"
  /\ \E r \in fs : r.status = "listed" /\ \E n \in NamesOf(r.entries) : n[1] = "."
  /\ \E r \in fs : /\ r.path # <<>>
                   /\ run.output_filename \in NamesOf(r.entries)
                   /\ Len(LinesOfFolder(r.path)) = 2

\* C2: an entry with the report's name F directly in the root folder never gets
\* an entry line or a content line; an entry named F in a subfolder is listed
\* with its classification and, when content is asked for and it is a file, its
\* content block follows its line.
C2_SelfExclusion ==
  /\ \A i \in 1..Len(out) : out[i].at # <<run.output_filename>>
  /\ pc = "done" =>
       \A r \in fs :
         (r.status = "listed" /\ r.path # <<>> /\ run.output_filename \in NamesOf(r.entries))
         => \E i \in 1..Len(out) :
              /\ out[i].kind = "entry"
              /\ out[i].at = Append(r.path, run.output_filename)
              /\ out[i].name = run.output_filename
              /\ out[i].cls = KindOf(r.entries, run.output_filename)
              /\ (run.include_file_content /\ out[i].cls = "file")
                 => /\ i < Len(out)
                    /\ out[i + 1].at = out[i].at
                    /\ out[i + 1].kind = "text_header"

\* a finished run with content whose root holds the report, and a folder two
\* levels down another file of that name
C2_Witness ==
  /\ pc = "done"
  /\ run.include_file_content
  /\ \E r \in fs : r.path = <<>> /\ run.output_filename \in NamesOf(r.entries)
  /\ \E r \in fs : Len(r.path) = 2 /\ run.output_filename \in NamesOf(r.entries)

\* the entry at path p is the last of the entries listed for its folder
IsLastSibling(p) ==
  \A m \in Kept(FsAt(Parent(p)), TRUE) : m = p[Len(p)] \/ StrLess(m, p[Len(p)])

\* C3: the prefix of the entry line of an entry at depth d is the root indent
\* and d-1 segments, one per ancestor folder below the root: the continuation
\* segment iff the ancestor was not the last listed sibling in its folder,
\* padding otherwise; the connector is the last one iff the entry is the final
\* sibling listed for its folder.
C3_Prefix ==
  \A i \in 1..Len(out) :
    out[i].kind = "entry" =>
      LET p == out[i].at
      IN  /\ out[i].prefix =
               <<"  ">> \o [k \in 1..(Len(p) - 1) |->
                              IF IsLastSibling(SubSeq(p, 1, k)) THEN "    " ELSE "|   "]
          /\ out[i].pointer = IF IsLastSibling(p) THEN "+-- " ELSE "|-- "

\* a line three levels down, under a folder that is not the last of its
\* siblings and a folder that is
C3_Witness ==
  \E i \in 1..Len(out) :
    /\ out[i].kind = "entry"
    /\ Len(out[i].at) = 3
    /\ out[i].prefix = <<"  ", "|   ", "    ">>
    /\ out[i].pointer = "+-- "

\* the lines written under the entry at path p that are not tree lines
ContentOf(p) ==
  LET Is(l) == l.at = p /\ l.kind \notin {"root", "entry", "access_denied", "path_not_found"}
  IN  SelectSeq(out, Is)

\* the block c opens with the header of one strategy, run with the cap, and
\* holds only lines of that strategy
BlockOf(c, header, cap, kinds) ==
  /\ c # <<>>
  /\ c[1].kind = header
  /\ c[1].cap = cap
  /\ \A j \in 1..Len(c) : c[j].kind \in kinds

\* C4: under a file entry, when content is asked for, exactly one of five
\* outcomes is written, the first that applies: the name is in the skip-set:
\* the one notice; the lower-cased extension is .ipynb: the notebook block; it is
\* .csv: the preview block with the preview cap; it is in the text extensions
\* (the empty extension too): the text block with the general cap; otherwise the
\* one "non-text" line.  Under a folder or other entry, and under every entry
\* when content is not asked for, no content line is written.
C4_Dispatch ==
  \A i \in 1..Len(out) :
    out[i].kind = "entry" =>
      LET c == ContentOf(out[i].at)
          ext == Lower(SplitExt(out[i].name))
      IN  IF out[i].cls # "file" \/ ~run.include_file_content
          THEN c = <<>>
          ELSE IF out[i].name \in run.files_to_skip_content_processing
          THEN Len(c) = 1 /\ c[1].kind = "skip_notice"
          ELSE IF ext = <<".", "i", "p", "y", "n", "b">>
          THEN BlockOf(c, "nb_header", MAX_FILE_CONTENT_LINES,
                       {"nb_header", "nb_invalid", "nb_footer", "md_cell", "code_cell",
                        "content", "truncated", "nb_empty"})
          ELSE IF ext = <<".", "c", "s", "v">>
          THEN BlockOf(c, "csv_header", CSV_PREVIEW_LINES,
                       {"csv_header", "content", "csv_truncated", "csv_empty", "csv_footer"})
          ELSE IF ext \in TEXT_FILE_EXTENSIONS
          THEN BlockOf(c, "text_header", MAX_FILE_CONTENT_LINES,
                       {"text_header", "content", "truncated", "text_empty", "text_footer"})
          ELSE Len(c) = 1 /\ c[1].kind = "non_text"

\* a run with content that wrote a preview for an upper-case .CSV name, a text
\* block for a name without extension and the notice for a skipped name
C4_Witness ==
  /\ \E i \in 1..Len(out) :
       out[i].kind = "csv_header" /\ out[i].at[Len(out[i].at)] = <<"D", ".", "C", "S", "V">>
  /\ \E i \in 1..Len(out) :
       out[i].kind = "text_header" /\ out[i].at[Len(out[i].at)] = <<"m", "k">>
  /\ \E i \in 1..Len(out) : out[i].kind = "skip_notice"

\* C10: a folder whose listing is denied gets its own entry line, then one
\* "[Access Denied]" line, and no other line for its subtree; every sibling that
\* follows it, and every later sibling of its ancestors, still gets its entry
\* line and, if content is asked for, its content; the run completes.
C10_AccessDenied ==
  pc = "done" =>
    \A r \in fs :
      r.status = "denied" =>
        LET D == r.path
            Is(l) == IsPrefix(D, l.at)
            under == SelectSeq(out, Is)
            at == CHOOSE i \in 1..Len(out) : out[i].kind = "access_denied" /\ out[i].at = D
        IN  /\ Len(under) = 2
            /\ under[1].kind = IF D = <<>> THEN "root" ELSE "entry"
            /\ under[1].at = D
            /\ under[2].kind = "access_denied"
            /\ out[at - 1] = under[1]
            /\ \A k \in 1..Len(D) :
                 \A m \in Kept(FsAt(SubSeq(D, 1, k - 1)), TRUE) :
                   StrLess(D[k], m) =>
                     \E j \in (at + 1)..Len(out) :
                       /\ out[j].kind = "entry"
                       /\ out[j].at = Append(SubSeq(D, 1, k - 1), m)
                       /\ (run.include_file_content /\ out[j].cls = "file")
                          => /\ j < Len(out)
                             /\ out[j + 1].at = out[j].at
                             /\ out[j + 1].kind # "entry"

\* a finished run with content in which a folder two levels down was denied,
\* with a file after it in its folder and a file after its parent in the root
C10_Witness ==
  /\ pc = "done"
  /\ run.include_file_content
  /\ \E r \in fs :
       /\ r.status = "denied"
       /\ Len(r.path) = 2
       /\ \A k \in 1..2 :
            \E e \in FsAt(SubSeq(r.path, 1, k - 1)).entries :
              e.kind = "file" /\ e.name[1] # "." /\ StrLess(r.path[k], e.name)

====
